---- MODULE Spec2Model ----
(***************************************************************************)
(* Observer sharing in torch/ao/quantization/pt2e/prepare.py:              *)
(* the union-find registry over EdgeOrNode positions, the sharing-relation *)
(* builder, group-id assignment, the observer/fake-quant instance map and  *)
(* the observer insertion pass over the graph.                             *)
(*                                                                         *)
(* A position (EdgeOrNode) is a tuple: <<n>> is the output of node n,      *)
(* <<arg, n>> is the input edge from arg to n.  A Python dict is a         *)
(* sequence of [k, v] records in insertion order.                          *)
(***************************************************************************)
EXTENDS Integers, Sequences, FiniteSets, TLC

VARIABLES
    pc,                        \* position of the running call
    err,                       \* "" or the name of the exception that was raised
    edge_or_node_to_qspec,     \* ordered dict EdgeOrNode -> qspec
    shared_with_map,           \* EdgeOrNode -> parent EdgeOrNode
    idx,                       \* position of the current for-loop in its dict
    cur_group_id,
    edge_or_node_to_group_id,  \* EdgeOrNode -> int
    group_id_to_obs_or_fq,     \* int -> instance
    obs_or_fq_map,             \* EdgeOrNode -> instance
    factory_calls,             \* history of the calls of _create_obs_or_fq_from_qspec
    connected,                 \* history: EdgeOrNode -> the positions it was unioned with
    call,                      \* the entry point that was called
    graph,                     \* model.graph: the node order and each node's fields
    nodes_before_observation,  \* the node list captured before the insertion loop
    node_idx,                  \* position of the insertion loop in that list
    runs,                      \* the calls of prepare that returned
    count_before,              \* history: the number of nodes when prepare was called
    events,                    \* history: the observers inserted and reused
    ret                        \* the last call of the registry and what it returned

vars == <<pc, err, edge_or_node_to_qspec, shared_with_map, idx, cur_group_id,
          edge_or_node_to_group_id, group_id_to_obs_or_fq, obs_or_fq_map,
          factory_calls, connected, call, graph, nodes_before_observation, node_idx,
          runs, count_before, events, ret>>

-----------------------------------------------------------------------------
(* Bounds *)

\* number of positions registered in the registry of SpecUF
MaxReg == 4

\* largest number of annotated positions in a drawn annotation dict
MaxAnn == 3

\* largest number of annotated positions of a drawn graph
MaxGraphAnn == 2

\* largest number of calls of prepare on one graph
MaxRuns == 2

-----------------------------------------------------------------------------
(* The nodes of the docstring example of _get_edge_or_node_to_group_id *)

op1 == 1
op2 == 2
op3 == 3
cat1 == 4
cat2 == 5

NoAttr == "no_attr"
NoPos == <<>>

\* isinstance(edge_or_node, torch.fx.Node)
IsNode(edge_or_node) == Len(edge_or_node) = 1

\* QuantizationSpec-like concrete specs; dtype / is_dynamic may be missing attributes
ConcreteSpec(dtype, is_dynamic, ctr) ==
    [kind |-> "qspec", dtype |-> dtype, is_dynamic |-> is_dynamic, ctr |-> ctr, ref |-> NoPos]

\* SharedQuantizationSpec(edge_or_node): has neither dtype nor is_dynamic
SharedQuantizationSpec(edge_or_node) ==
    [kind |-> "shared", dtype |-> NoAttr, is_dynamic |-> NoAttr, ctr |-> "none", ref |-> edge_or_node]

int8_qspec == ConcreteSpec("int8", "false", "A")
int8_qspec_b == ConcreteSpec("int8", "false", "B")
int8_dynamic_qspec == ConcreteSpec("int8", "true", "A")
uint8_qspec == ConcreteSpec("uint8", "false", "A")
derived_qspec == ConcreteSpec("int8", NoAttr, "A")

-----------------------------------------------------------------------------
(* Ordered dicts *)

Keys(d) == {d[k].k : k \in DOMAIN d}

Get(d, key) == (CHOOSE k \in DOMAIN d : d[k].k = key)

Lookup(d, key) == d[Get(d, key)].v

Item(key, value) == [k |-> key, v |-> value]

-----------------------------------------------------------------------------
(* Disjoint-set registry *)

\* the exception caught and None returned
Swallowed(e, m) == [err |-> "", root |-> NoPos, map |-> m]

Raised(e, m) == [err |-> e, root |-> NoPos, map |-> m]

\* Python's recursion limit, far above any chain of a forest over the keys: a
\* parent chain longer than the number of keys only exists on a cycle.
RecursionDepth(m) == Cardinality(DOMAIN m) + 1

RECURSIVE _find_root_rec(_, _, _)
_find_root_rec(edge_or_node, m, fuel) ==
    IF edge_or_node \notin DOMAIN m
    THEN Raised("KeyError", m)
    ELSE LET parent == m[edge_or_node] IN
         IF parent = edge_or_node
         THEN [err |-> "", root |-> edge_or_node, map |-> m]
         ELSE IF fuel = 0
         THEN Raised("RecursionError", m)
         ELSE LET r == _find_root_rec(parent, m, fuel - 1) IN
              IF r.err # ""
              THEN r
              ELSE [err |-> "", root |-> r.root,
                    map |-> [r.map EXCEPT ![edge_or_node] = r.root]]

\* the root returned without the writes of the path compression
_find_root_uncompressed(edge_or_node, m) ==
    [_find_root_rec(edge_or_node, m, RecursionDepth(m)) EXCEPT !.map = m]

_find_root(edge_or_node, m) == _find_root_rec(edge_or_node, m, RecursionDepth(m))

\* the root of parent pointed to the root of child
_union_reversed(parent, child, m) ==
    LET rp == _find_root(parent, m) IN
    IF rp.err # "" THEN rp
    ELSE LET rc == _find_root(child, rp.map) IN
         IF rc.err # "" THEN rc
         ELSE [err |-> "", root |-> rc.root,
               map |-> [rc.map EXCEPT ![rp.root] = rc.root]]

\* the root of child pointed to parent itself, not to its root
_union_under_parent(parent, child, m) ==
    LET rp == _find_root(parent, m) IN
    IF rp.err # "" THEN rp
    ELSE LET rc == _find_root(child, rp.map) IN
         IF rc.err # "" THEN rc
         ELSE [err |-> "", root |-> rp.root,
               map |-> [rc.map EXCEPT ![rc.root] = parent]]

_union_child_itself(parent, child, m) ==
    LET rp == _find_root(parent, m) IN
    IF rp.err # "" THEN rp
    ELSE LET rc == _find_root(child, rp.map) IN
         IF rc.err # "" THEN rc
         ELSE [err |-> "", root |-> rp.root,
               map |-> [rc.map EXCEPT ![child] = rp.root]]

_union(parent, child, m) ==
    LET rp == _find_root(parent, m) IN
    IF rp.err # "" THEN rp
    ELSE LET rc == _find_root(child, rp.map) IN
         IF rc.err # "" THEN rc
         ELSE [err |-> "", root |-> rp.root,
               map |-> [rc.map EXCEPT ![rc.root] = rp.root]]

\* the root of a position by pointer chasing alone (no write)
Root(p, m) == _find_root(p, m).root

-----------------------------------------------------------------------------
(* Registry under arbitrary calls: SpecUF *)

AllPositions ==
    << <<op1>>, <<op1, cat1>>, <<cat1>>, <<op1, cat2>>, <<cat2>>, <<cat1, cat2>>,
       <<op2>>, <<op2, cat1>>, <<op3>>, <<op3, cat2>> >>

Registered == {AllPositions[k] : k \in 1..MaxReg}

Unregistered == <<op3, op3>>

NoRet == [op |-> "none", a |-> NoPos, b |-> NoPos, err |-> "", root |-> NoPos]

EmptyGraph == [order |-> <<>>, node |-> <<>>]

graph_vars == <<graph, nodes_before_observation, node_idx, runs, count_before, events>>

NoGraph ==
    /\ graph = EmptyGraph
    /\ nodes_before_observation = <<>>
    /\ node_idx = 0
    /\ runs = 0
    /\ count_before = 0
    /\ events = <<>>

Idle ==
    /\ NoGraph
    /\ err = ""
    /\ edge_or_node_to_qspec = <<>>
    /\ idx = 0
    /\ cur_group_id = 0
    /\ edge_or_node_to_group_id = <<>>
    /\ group_id_to_obs_or_fq = <<>>
    /\ obs_or_fq_map = <<>>
    /\ factory_calls = <<>>

InitUF ==
    /\ Idle
    /\ pc = "registry"
    /\ call = "registry"
    /\ shared_with_map = [p \in Registered |-> p]
    /\ connected = [p \in Registered |-> {p}]
    /\ ret = NoRet

UnchangedPass ==
    UNCHANGED <<pc, err, edge_or_node_to_qspec, idx, cur_group_id,
                edge_or_node_to_group_id, group_id_to_obs_or_fq, obs_or_fq_map,
                factory_calls, call, graph_vars>>

Merge(conn, a, b) ==
    LET both == conn[a] \cup conn[b] IN
    [p \in DOMAIN conn |-> IF p \in both THEN both ELSE conn[p]]

CallUnion ==
    /\ pc = "registry"
    /\ \E parent \in Registered, child \in Registered :
         LET r == _union(parent, child, shared_with_map) IN
         /\ shared_with_map' = r.map
         /\ connected' = Merge(connected, parent, child)
         /\ ret' = [op |-> "union", a |-> parent, b |-> child, err |-> r.err, root |-> r.root]
    /\ UnchangedPass

CallFindRoot ==
    /\ pc = "registry"
    /\ \E p \in Registered \cup {Unregistered} :
         LET r == _find_root(p, shared_with_map) IN
         /\ shared_with_map' = r.map
         /\ ret' = [op |-> "find", a |-> p, b |-> NoPos, err |-> r.err, root |-> r.root]
    /\ UNCHANGED connected
    /\ UnchangedPass

NextUF == CallUnion \/ CallFindRoot

SpecUF == InitUF /\ [][NextUF]_vars

\* C1: after any sequence of _union and _find_root calls on registered positions,
\* two registered positions have the same root exactly when a chain of the
\* unions applied connects them.
C1_UnionFindCorrect ==
    pc = "registry" =>
        \A a \in Registered, b \in Registered :
            (_find_root(a, shared_with_map).root = _find_root(b, shared_with_map).root)
                <=> (b \in connected[a])

\* three positions joined by two unions, a third of them never named with the first
C1_Witness ==
    /\ pc = "registry"
    /\ \E a \in Registered, b \in Registered :
         /\ a # b
         /\ Cardinality(connected[a]) >= 3
         /\ Cardinality(connected[b]) = 1
         /\ \E c \in connected[a] : shared_with_map[c] # c /\ shared_with_map[shared_with_map[c]] # shared_with_map[c]

\* the positions on the parent chain from p up to its root
RECURSIVE Chain(_, _)
Chain(p, m) == IF m[p] = p THEN {p} ELSE {p} \cup Chain(m[p], m)

\* the end of the parent chain of p
TopOf(p, m) == CHOOSE x \in Chain(p, m) : m[x] = x

\* the groups of a parent map
Partition(m) == {{q \in DOMAIN m : TopOf(q, m) = TopOf(p, m)} : p \in DOMAIN m}

\* C11: after _union(parent, child) every position of the two groups has the root
\* parent had before the call, the child's former root points to it, and the
\* positions of the other groups keep their roots.
C11_DirectedUnion ==
    [][(ret'.op = "union" /\ ret'.err = "") =>
        LET m == shared_with_map
            rp == TopOf(ret'.a, m)
            rc == TopOf(ret'.b, m)
        IN
        /\ ret'.root = rp
        /\ shared_with_map'[rc] = rp
        /\ \A p \in DOMAIN m :
              TopOf(p, shared_with_map') = IF TopOf(p, m) \in {rp, rc} THEN rp ELSE TopOf(p, m)
      ]_vars

\* a child below its root and a parent below its root, merged under the parent's root
C11_Witness ==
    /\ pc = "registry"
    /\ ret.op = "union"
    /\ ret.err = ""
    /\ ret.a # ret.root
    /\ shared_with_map[ret.a] = ret.root
    /\ shared_with_map[ret.b] \notin {ret.b, ret.root}
    /\ shared_with_map[shared_with_map[ret.b]] = ret.root

\* C12: from any state of the registry _union(a, b) and _union(b, a) give the same
\* partition; where they differ in a root, it is a's former root in the one and b's
\* former root in the other.
C12_UnionSymmetricOnPartition ==
    pc = "registry" =>
        \A a \in Registered, b \in Registered :
            LET m1 == _union(a, b, shared_with_map).map
                m2 == _union(b, a, shared_with_map).map
            IN
            /\ Partition(m1) = Partition(m2)
            /\ \A p \in Registered :
                  TopOf(p, m1) # TopOf(p, m2) =>
                      /\ TopOf(p, m1) = TopOf(a, shared_with_map)
                      /\ TopOf(p, m2) = TopOf(b, shared_with_map)

\* two groups of two after unions: either order of a further union merges all four,
\* under different roots
C12_Witness ==
    /\ pc = "registry"
    /\ ret.op = "union"
    /\ \E a \in Registered, b \in Registered :
         /\ shared_with_map[a] # a
         /\ shared_with_map[b] # b
         /\ TopOf(a, shared_with_map) # TopOf(b, shared_with_map)
         /\ _union(a, b, shared_with_map).map # _union(b, a, shared_with_map).map

\* C13: _find_root on a position that was never registered raises KeyError and
\* leaves the parent map as it was.
C13_KeyErrorOnUnregistered ==
    [][(ret'.op = "find" /\ ret'.a \notin DOMAIN shared_with_map) =>
        /\ ret'.err = "KeyError"
        /\ ret'.root = NoPos
        /\ shared_with_map' = shared_with_map
      ]_vars

\* the unregistered position looked up in a registry that unions have changed
C13_Witness ==
    /\ pc = "registry"
    /\ ret.op = "find"
    /\ ret.a = Unregistered
    /\ ret.err = "KeyError"
    /\ \E p \in Registered : shared_with_map[p] # p

\* C18: _find_root(p) returning r leaves every position of the parent chain of p
\* pointing to r, leaves the other entries as they were, changes no position's root,
\* and writes nothing when p is its own parent.
C18_PathCompression ==
    [][(ret'.op = "find" /\ ret'.err = "") =>
        LET m == shared_with_map
            p == ret'.a
            r == ret'.root
        IN
        /\ r = TopOf(p, m)
        /\ \A q \in DOMAIN m :
              /\ q \in Chain(p, m) => shared_with_map'[q] = r
              /\ q \notin Chain(p, m) => shared_with_map'[q] = m[q]
              /\ TopOf(q, shared_with_map') = TopOf(q, m)
        /\ m[p] = p => shared_with_map' = m
      ]_vars

\* p points to the root it was found to have, a position below p was left alone
C18_Witness ==
    /\ pc = "registry"
    /\ ret.op = "find"
    /\ ret.err = ""
    /\ ret.a # ret.root
    /\ shared_with_map[ret.a] = ret.root
    /\ \E q \in Registered : q # ret.a /\ shared_with_map[q] = ret.a

-----------------------------------------------------------------------------
(* Sharing-relation builder *)

\* _union called with the position itself as the parent
\* a reference to a position that is not a key passed over
_update_shared_with_known(edge_or_node, qspec, m) ==
    IF qspec.kind = "shared" /\ qspec.ref \in DOMAIN m
    THEN _union(qspec.ref, edge_or_node, m)
    ELSE [err |-> "", root |-> NoPos, map |-> m]

_update_shared_with_child_wins(edge_or_node, qspec, m) ==
    IF qspec.kind = "shared"
    THEN _union(edge_or_node, qspec.ref, m)
    ELSE [err |-> "", root |-> NoPos, map |-> m]

_update_shared_with(edge_or_node, qspec, m) ==
    IF qspec.kind = "shared"
    THEN _union(qspec.ref, edge_or_node, m)
    ELSE [err |-> "", root |-> NoPos, map |-> m]

RaisedQ(e, m) == [err |-> e, qspec |-> int8_qspec, map |-> m]

RECURSIVE _find_root_qspec_rec(_, _, _, _)
_find_root_qspec_rec(qspec, e2q, m, fuel) ==
    IF qspec.kind = "shared"
    THEN IF fuel = 0
         THEN RaisedQ("RecursionError", m)
         ELSE LET r == _find_root(qspec.ref, m) IN
              IF r.err # ""
              THEN RaisedQ(r.err, r.map)
              ELSE _find_root_qspec_rec(Lookup(e2q, r.root), e2q, r.map, fuel - 1)
    ELSE [err |-> "", qspec |-> qspec, map |-> m]

\* a resolution that ends visits each annotated position at most once
_find_root_qspec(qspec, e2q, m) == _find_root_qspec_rec(qspec, e2q, m, Len(e2q) + 1)

_has_same_qspec(qspec_a, qspec_b) == qspec_a = qspec_b

\* the two dtypes not compared
_both_have_dtype(qspec_a, qspec_b) ==
    /\ qspec_a.dtype # NoAttr
    /\ qspec_b.dtype # NoAttr

_has_same_dtype(qspec_a, qspec_b) ==
    /\ qspec_a.dtype # NoAttr
    /\ qspec_b.dtype # NoAttr
    /\ qspec_a.dtype = qspec_b.dtype

_both_is_dynamic(qspec_a, qspec_b) ==
    /\ qspec_a.is_dynamic = "true"
    /\ qspec_b.is_dynamic = "true"

\* two specs without is_dynamic taken to have the same is_dynamic
_has_same_is_dynamic_or_none(qspec_a, qspec_b) ==
    qspec_a.is_dynamic = qspec_b.is_dynamic

_has_same_is_dynamic(qspec_a, qspec_b) ==
    /\ qspec_a.is_dynamic # NoAttr
    /\ qspec_b.is_dynamic # NoAttr
    /\ qspec_a.is_dynamic = qspec_b.is_dynamic

\* one iteration of the loop over edge_or_node_to_qspec.items() for an input edge:
\* [err, map, implicit], implicit telling whether arg's output was unioned with the edge
BuildEdge(input_edge, qspec, e2q, m) ==
    LET r1 == _find_root(input_edge, m)
        arg == <<input_edge[1]>>
    IN
    IF r1.err # "" THEN [err |-> r1.err, map |-> r1.map, implicit |-> FALSE]
    ELSE
    LET r2 == _find_root_qspec(Lookup(e2q, r1.root), e2q, r1.map) IN
    IF r2.err # "" THEN [err |-> r2.err, map |-> r2.map, implicit |-> FALSE]
    ELSE
    LET has_arg == arg \in Keys(e2q)
        r3 == IF has_arg THEN _find_root_qspec(Lookup(e2q, arg), e2q, r2.map)
                         ELSE [err |-> "", qspec |-> int8_qspec, map |-> r2.map]
    IN
    IF r3.err # "" THEN [err |-> r3.err, map |-> r3.map, implicit |-> FALSE]
    ELSE
    LET implicit == /\ has_arg
                    /\ _has_same_dtype(r3.qspec, r2.qspec)
                    /\ _has_same_is_dynamic(r3.qspec, r2.qspec)
        r4 == IF implicit THEN _union(arg, input_edge, r3.map)
                          ELSE [err |-> "", root |-> NoPos, map |-> r3.map]
    IN
    IF r4.err # "" THEN [err |-> r4.err, map |-> r4.map, implicit |-> implicit]
    ELSE
    LET r5 == _update_shared_with(input_edge, qspec, r4.map) IN
    [err |-> r5.err, map |-> r5.map, implicit |-> implicit]

BuildNode(output_node, qspec, m) ==
    LET r == _update_shared_with(output_node, qspec, m) IN
    [err |-> r.err, map |-> r.map, implicit |-> FALSE]

BuildItem(item, e2q, m) ==
    IF IsNode(item.k) THEN BuildNode(item.k, item.v, m)
                      ELSE BuildEdge(item.k, item.v, e2q, m)

\* the unions one iteration applied, added to the history
Applied(conn, item, r) ==
    LET c1 == IF r.implicit THEN Merge(conn, <<item.k[1]>>, item.k) ELSE conn IN
    IF r.err = "" /\ item.v.kind = "shared" /\ item.v.ref \in DOMAIN conn
    THEN Merge(c1, item.v.ref, item.k)
    ELSE c1

\* lines 171-199: one iteration of the loop that applies the sharing relations
BuildStep ==
    /\ pc = "build"
    /\ idx < Len(edge_or_node_to_qspec)
    /\ LET item == edge_or_node_to_qspec[idx + 1]
           r == BuildItem(item, edge_or_node_to_qspec, shared_with_map)
       IN
       /\ shared_with_map' = r.map
       /\ err' = r.err
       /\ pc' = IF r.err # "" THEN "raised" ELSE "build"
       /\ idx' = idx + 1
       /\ connected' = Applied(connected, item, r)
    /\ UNCHANGED <<edge_or_node_to_qspec, cur_group_id, edge_or_node_to_group_id,
                   group_id_to_obs_or_fq, obs_or_fq_map, factory_calls, call, ret,
                   graph_vars>>

FirstGroupIdOfDocstring == 1

\* line 202
FirstGroupId == 0

Put(f, key, value) == [x \in DOMAIN f \cup {key} |-> IF x = key THEN value ELSE f[x]]

\* lines 204-209: one iteration of the loop over shared_with_map.keys()
AssignItem(edge_or_node, m, e2g, cur) ==
    LET r == _find_root(edge_or_node, m)
        fresh == r.root \notin DOMAIN e2g
        g1 == IF fresh THEN Put(e2g, r.root, cur) ELSE e2g
    IN
    [map |-> r.map,
     cur |-> IF fresh THEN cur + 1 ELSE cur,
     e2g |-> Put(g1, edge_or_node, g1[r.root])]

RECURSIVE AssignAll(_, _, _)
AssignAll(i, d, st) ==
    IF i > Len(d) THEN st
    ELSE AssignAll(i + 1, d, AssignItem(d[i].k, st.map, st.e2g, st.cur))

\* lines 201-211: the sharing relations are complete, every key gets its group id
AssignGroupIds ==
    /\ pc = "build"
    /\ idx = Len(edge_or_node_to_qspec)
    /\ LET r == AssignAll(1, edge_or_node_to_qspec,
                          [map |-> shared_with_map, cur |-> FirstGroupId, e2g |-> <<>>])
       IN
       /\ shared_with_map' = r.map
       /\ cur_group_id' = r.cur
       /\ edge_or_node_to_group_id' = r.e2g
    /\ pc' = "group_ids"
    /\ UNCHANGED <<err, edge_or_node_to_qspec, idx, group_id_to_obs_or_fq, obs_or_fq_map,
                   factory_calls, connected, call, graph, nodes_before_observation, node_idx,
          runs, count_before, events, ret>>

-----------------------------------------------------------------------------
(* Instance materializer *)

NoInstance == [id |-> 0, dtype |-> NoAttr, is_dynamic |-> NoAttr, ctr |-> "none"]

\* the factory: a shared spec is resolved in the instances made so far, any other
\* spec makes a new instance (new_id is its identity)
_create_obs_or_fq_from_qspec(qspec, instances, new_id) ==
    IF qspec.kind = "shared"
    THEN IF qspec.ref \in DOMAIN instances
         THEN [err |-> "", obj |-> instances[qspec.ref]]
         ELSE [err |-> "AssertionError", obj |-> NoInstance]
    ELSE [err |-> "",
          obj |-> [id |-> new_id, dtype |-> qspec.dtype,
                   is_dynamic |-> qspec.is_dynamic, ctr |-> qspec.ctr]]

_obs_never_cached(group_id, g2o) == FALSE

_obs_cached(group_id, g2o) == group_id \in DOMAIN g2o

\* the factory called before the cache is looked at
MaterializeItemEager(item, e2g, g2o, instances, calls) ==
    LET group_id == e2g[item.k]
        cached == _obs_cached(group_id, g2o)
        made == _create_obs_or_fq_from_qspec(item.v, instances, Len(calls) + 1)
        failed == made.err # ""
        g1 == IF cached \/ failed THEN g2o ELSE Put(g2o, group_id, made.obj)
    IN
    [err |-> made.err,
     g2o |-> g1,
     instances |-> IF failed THEN instances ELSE Put(instances, item.k, g1[group_id]),
     calls |-> Append(calls, [pos |-> item.k, qspec |-> item.v, group_id |-> group_id])]

\* lines 224-230: one iteration of the loop over edge_or_node_to_qspec.items()
MaterializeItem(item, e2g, g2o, instances, calls) ==
    LET group_id == e2g[item.k]
        cached == _obs_cached(group_id, g2o)
        made == _create_obs_or_fq_from_qspec(item.v, instances, Len(calls) + 1)
        failed == ~cached /\ made.err # ""
        g1 == IF cached \/ failed THEN g2o ELSE Put(g2o, group_id, made.obj)
    IN
    [err |-> IF failed THEN made.err ELSE "",
     g2o |-> g1,
     instances |-> IF failed THEN instances ELSE Put(instances, item.k, g1[group_id]),
     calls |-> IF cached THEN calls
               ELSE Append(calls, [pos |-> item.k, qspec |-> item.v, group_id |-> group_id])]

RECURSIVE MaterializeAll(_, _, _, _)
MaterializeAll(i, d, e2g, st) ==
    IF i > Len(d) \/ st.err # "" THEN st
    ELSE MaterializeAll(i + 1, d, e2g,
                        MaterializeItem(d[i], e2g, st.g2o, st.instances, st.calls))

\* lines 213-231: _get_obs_or_fq_map on the group ids just returned
GetObsOrFqMap ==
    /\ pc = "group_ids"
    /\ LET r == MaterializeAll(1, edge_or_node_to_qspec, edge_or_node_to_group_id,
                               [err |-> "", g2o |-> <<>>, instances |-> <<>>,
                                calls |-> factory_calls])
       IN
       /\ err' = r.err
       /\ pc' = IF r.err # "" THEN "raised"
                ELSE IF call = "group" THEN "returned" ELSE "insert"
       /\ group_id_to_obs_or_fq' = r.g2o
       /\ obs_or_fq_map' = r.instances
       /\ factory_calls' = r.calls
    /\ UNCHANGED <<edge_or_node_to_qspec, shared_with_map, idx, cur_group_id,
                   edge_or_node_to_group_id, connected, call, ret, graph_vars>>

-----------------------------------------------------------------------------
(* Group assignment and instances of an annotation dict: SpecGroup *)

\* lines 143-152
DocExample ==
    << Item(<<op1>>, int8_qspec),
       Item(<<op2>>, int8_qspec),
       Item(<<op1, cat1>>, int8_qspec),
       Item(<<op2, cat1>>, SharedQuantizationSpec(<<op1, cat1>>)),
       Item(<<cat1>>, SharedQuantizationSpec(<<op1, cat1>>)),
       Item(<<op3, cat2>>, int8_qspec),
       Item(<<cat1, cat2>>, SharedQuantizationSpec(<<op3, cat2>>)),
       Item(<<cat2>>, SharedQuantizationSpec(<<op3, cat2>>)) >>

\* annotations on the docstring's nodes where the edge (op3, cat2), shared-with op2,
\* is already in op2's group when it is processed and is unioned with op3 first
RepointedRootExample ==
    << Item(<<op1>>, SharedQuantizationSpec(<<op3, cat2>>)),
       Item(<<op1, cat1>>, SharedQuantizationSpec(<<op2>>)),
       Item(<<op2>>, int8_qspec),
       Item(<<op3, cat2>>, SharedQuantizationSpec(<<op2>>)),
       Item(<<op3>>, int8_qspec) >>

GenPos == {<<op1>>, <<op1, cat1>>, <<op1, cat2>>, <<cat1>>}

GenSpecs ==
    {int8_qspec, int8_qspec_b, int8_dynamic_qspec, uint8_qspec, derived_qspec}
        \cup {SharedQuantizationSpec(p) : p \in GenPos}

GenItems == {Item(p, q) : p \in GenPos, q \in GenSpecs}

IsDict(d) == \A i \in DOMAIN d, j \in DOMAIN d : d[i].k = d[j].k => i = j

AnnotationDicts ==
    UNION {{d \in [1..n -> GenItems] : IsDict(d)} : n \in 0..MaxAnn}

\* line 170
StartBuild(d) ==
    /\ edge_or_node_to_qspec = d
    /\ shared_with_map = [p \in Keys(d) |-> p]
    /\ connected = [p \in Keys(d) |-> {p}]
    /\ pc = "build"
    /\ err = ""
    /\ idx = 0
    /\ cur_group_id = 0
    /\ edge_or_node_to_group_id = <<>>
    /\ group_id_to_obs_or_fq = <<>>
    /\ obs_or_fq_map = <<>>
    /\ factory_calls = <<>>
    /\ ret = NoRet

InitGroup ==
    /\ call = "group"
    /\ NoGraph
    /\ \E d \in AnnotationDicts \cup {DocExample, RepointedRootExample} : StartBuild(d)

NextGroup ==
    \/ BuildStep
    \/ AssignGroupIds
    \/ GetObsOrFqMap

SpecGroup == InitGroup /\ [][NextGroup]_vars

-----------------------------------------------------------------------------
(* Properties of group assignment and of the instance map *)

GroupIdsReturned == pc \in {"group_ids", "returned"} \/ (pc = "raised" /\ factory_calls # <<>>)

FirstIndex(d, g, e2g) == CHOOSE i \in DOMAIN d : e2g[d[i].k] = g /\ \A j \in 1..(i - 1) : e2g[d[j].k] # g

\* C2: on the docstring example all 8 positions get one group id and exactly one
\* instance is created, which is bound to each of the 8 positions.
C2_DocExampleOneGroup ==
    (edge_or_node_to_qspec = DocExample /\ pc = "returned") =>
        /\ DOMAIN edge_or_node_to_group_id = Keys(DocExample)
        /\ Cardinality(Keys(DocExample)) = 8
        /\ \A p \in Keys(DocExample), q \in Keys(DocExample) :
               edge_or_node_to_group_id[p] = edge_or_node_to_group_id[q]
        /\ Len(factory_calls) = 1
        /\ DOMAIN obs_or_fq_map = Keys(DocExample)
        /\ \A p \in Keys(DocExample) : obs_or_fq_map[p] = obs_or_fq_map[<<op1>>]
        /\ obs_or_fq_map[<<op1>>].id = 1

C2_Witness == edge_or_node_to_qspec = DocExample /\ pc = "returned" /\ err = ""

\* C3: two positions of the instance map with the same group id are bound to the
\* very same instance.
C3_SameGroupSameInstance ==
    pc = "returned" =>
        \A p \in DOMAIN obs_or_fq_map, q \in DOMAIN obs_or_fq_map :
            edge_or_node_to_group_id[p] = edge_or_node_to_group_id[q]
                => obs_or_fq_map[p] = obs_or_fq_map[q]

\* a returned map with a group of two positions and a second group
C3_Witness ==
    /\ pc = "returned"
    /\ \E p \in DOMAIN obs_or_fq_map, q \in DOMAIN obs_or_fq_map, r \in DOMAIN obs_or_fq_map :
         /\ p # q
         /\ edge_or_node_to_group_id[p] = edge_or_node_to_group_id[q]
         /\ edge_or_node_to_group_id[p] # edge_or_node_to_group_id[r]
         /\ obs_or_fq_map[p].id = obs_or_fq_map[q].id
         /\ obs_or_fq_map[p].id # obs_or_fq_map[r].id

NoSpec == [kind |-> "none", dtype |-> NoAttr, is_dynamic |-> NoAttr, ctr |-> "none", ref |-> NoPos]

\* the spec a position resolves to along the shared-with references of the annotations
RECURSIVE AnnotatedRootSpec(_, _, _)
AnnotatedRootSpec(p, d, fuel) ==
    IF p \notin Keys(d) \/ fuel = 0 THEN NoSpec
    ELSE LET q == Lookup(d, p) IN
         IF q.kind = "shared" THEN AnnotatedRootSpec(q.ref, d, fuel - 1) ELSE q

Agree(a, b) ==
    /\ a.kind = "qspec" /\ b.kind = "qspec"
    /\ a.dtype # NoAttr /\ a.dtype = b.dtype
    /\ a.is_dynamic # NoAttr /\ a.is_dynamic = b.is_dynamic

\* a node output and an input edge that consumes that node
OutputAndEdge(p, q) ==
    \/ Len(p) = 1 /\ Len(q) = 2 /\ q[1] = p[1]
    \/ Len(q) = 1 /\ Len(p) = 2 /\ p[1] = q[1]

ImplicitlyAdjacent(p, q, d) ==
    /\ OutputAndEdge(p, q)
    /\ Agree(AnnotatedRootSpec(p, d, Len(d)), AnnotatedRootSpec(q, d, Len(d)))

SharingChain(p1, p2, p3, d) ==
    /\ Lookup(d, p1).kind = "shared"
    /\ Lookup(d, p1).ref = p2
    /\ ImplicitlyAdjacent(p2, p3, d)

GroupIdsOf(ps) == {edge_or_node_to_group_id[p] : p \in ps}

\* C6: the factory is called exactly once per group id, at the first position of
\* the group in registration order and with that position's own spec; a later
\* position of the group is bound to the cached instance without a call.
C6_FactoryOncePerGroup ==
    /\ factory_calls # <<>> =>
        /\ \A c \in DOMAIN factory_calls :
               LET first == FirstIndex(edge_or_node_to_qspec, factory_calls[c].group_id,
                                       edge_or_node_to_group_id)
               IN
               /\ factory_calls[c].pos = edge_or_node_to_qspec[first].k
               /\ factory_calls[c].qspec = edge_or_node_to_qspec[first].v
               /\ edge_or_node_to_group_id[factory_calls[c].pos] = factory_calls[c].group_id
        /\ \A c1 \in DOMAIN factory_calls, c2 \in DOMAIN factory_calls :
               factory_calls[c1].group_id = factory_calls[c2].group_id => c1 = c2
    /\ pc = "returned" =>
        /\ Len(factory_calls) = Cardinality(GroupIdsOf(Keys(edge_or_node_to_qspec)))
        /\ DOMAIN obs_or_fq_map = Keys(edge_or_node_to_qspec)
        /\ \A c \in DOMAIN factory_calls : obs_or_fq_map[factory_calls[c].pos].id = c
        /\ \A p \in Keys(edge_or_node_to_qspec) :
               obs_or_fq_map[p] = group_id_to_obs_or_fq[edge_or_node_to_group_id[p]]

\* a group of two positions whose first member has another spec than its root,
\* and a later position bound without a call
C6_Witness ==
    /\ pc = "returned"
    /\ Len(edge_or_node_to_qspec) = 3
    /\ Len(factory_calls) = 2
    /\ \E c \in DOMAIN factory_calls :
         /\ factory_calls[c].pos # Root(factory_calls[c].pos, shared_with_map)
         /\ factory_calls[c].qspec #
                Lookup(edge_or_node_to_qspec, Root(factory_calls[c].pos, shared_with_map))

Roots == {Root(p, shared_with_map) : p \in Keys(edge_or_node_to_qspec)}

AcyclicSharing(d) ==
    \A p \in Keys(d) : AnnotatedRootSpec(p, d, Len(d)).kind = "qspec"

\* C14: on annotations whose shared-with references are acyclic and refer to annotated
\* positions, in every registration order, every root-spec resolution of the builder
\* ends and the group assignment completes.
C14_ResolutionTerminates ==
    AcyclicSharing(edge_or_node_to_qspec) =>
        ~(pc = "raised" /\ err \in {"RecursionError", "KeyError"})

\* the position reached from p by n shared-with references, NoPos when there is none
RECURSIVE Follow(_, _, _)
Follow(p, d, n) ==
    IF n = 0 THEN p
    ELSE IF p \notin Keys(d) THEN NoPos
    ELSE IF Lookup(d, p).kind # "shared" THEN NoPos
    ELSE Follow(Lookup(d, p).ref, d, n - 1)

\* some position is shared-with itself, directly or through other positions
CyclicSharing(d) == \E p \in Keys(d), n \in 1..Len(d) : Follow(p, d, n) = p

\* C15: when the shared-with references are cyclic the pass aborts (RecursionError
\* from the root-spec resolution) and no group map is returned.
C15_CyclicSharingRaises ==
    CyclicSharing(edge_or_node_to_qspec) => ~GroupIdsReturned

\* in the group ids returned a position shared-with another has that position's id
SharedWithSameGroupId ==
    GroupIdsReturned =>
        \A i \in DOMAIN edge_or_node_to_qspec :
            edge_or_node_to_qspec[i].v.kind = "shared" =>
                edge_or_node_to_group_id[edge_or_node_to_qspec[i].k]
                    = edge_or_node_to_group_id[edge_or_node_to_qspec[i].v.ref]

\* the builder goes through the item after idx and raises nothing
BuildsItem == pc = "build" /\ idx' = idx + 1 /\ pc' = "build"

\* C16 as stated: right after the builder processed p whose spec is shared-with q, p
\* and q have one root, the root q had right before p was processed; p and q end
\* with the same group id.
C16_ReferencedRootWins ==
    [][/\ (BuildsItem /\ edge_or_node_to_qspec[idx + 1].v.kind = "shared") =>
            LET p == edge_or_node_to_qspec[idx + 1].k
                q == edge_or_node_to_qspec[idx + 1].v.ref
            IN
            /\ TopOf(p, shared_with_map') = TopOf(q, shared_with_map')
            /\ TopOf(q, shared_with_map') = TopOf(q, shared_with_map)
      /\ SharedWithSameGroupId'
      ]_vars

\* C16 amended: right after the builder processed p whose spec is shared-with q, p and
\* q have one root: the root q had right before p was processed, or, when p is an edge
\* that was already in q's group and is first unioned with its source's output, the
\* root that source had; p and q end with the same group id.
C16_ReferencedRootWinsAtUnion ==
    [][/\ (BuildsItem /\ edge_or_node_to_qspec[idx + 1].v.kind = "shared") =>
            LET p == edge_or_node_to_qspec[idx + 1].k
                q == edge_or_node_to_qspec[idx + 1].v.ref
                m == shared_with_map
            IN
            /\ TopOf(p, shared_with_map') = TopOf(q, shared_with_map')
            /\ \/ TopOf(q, shared_with_map') = TopOf(q, m)
               \/ /\ Len(p) = 2
                  /\ <<p[1]>> \in DOMAIN m
                  /\ TopOf(q, m) = TopOf(p, m)
                  /\ TopOf(q, shared_with_map') = TopOf(<<p[1]>>, m)
      /\ SharedWithSameGroupId'
      ]_vars

\* (op3, cat2) has been processed: op2, which it is shared-with, now has op3 as root
C16_Witness ==
    /\ edge_or_node_to_qspec = RepointedRootExample
    /\ pc = "build"
    /\ idx = 4
    /\ TopOf(<<op2>>, shared_with_map) = <<op3>>
    /\ TopOf(<<op3, cat2>>, shared_with_map) = <<op3>>

\* the concrete spec a spec stands for under the parent map m: a shared-with reference
\* is replaced by the spec of the referenced position's root, again and again
RECURSIVE CurrentRootSpec(_, _, _, _)
CurrentRootSpec(qspec, d, m, fuel) ==
    IF qspec.kind # "shared" THEN qspec
    ELSE IF fuel = 0 THEN NoSpec
    ELSE CurrentRootSpec(Lookup(d, TopOf(qspec.ref, m)), d, m, fuel - 1)

\* the partition with the groups of a and b made one
Joined(groups, a, b) ==
    LET merged == UNION {g \in groups : a \in g \/ b \in g} IN
    {g \in groups : a \notin g /\ b \notin g} \cup {merged}

\* the condition of the implicit adjacency rule for the edge in the state before it
\* is processed
AdjacencyCondition(edge, d, m) ==
    /\ <<edge[1]>> \in Keys(d)
    /\ Agree(CurrentRootSpec(Lookup(d, <<edge[1]>>), d, m, Len(d)),
             CurrentRootSpec(Lookup(d, TopOf(edge, m)), d, m, Len(d)))

\* C17: when the builder processes an edge (arg, node) it unions arg's output with the
\* edge exactly when arg is annotated and the root specs of arg's output and of the
\* edge's root both have dtype, with equal values, and both have is_dynamic, with
\* equal values; otherwise the only union made is that of the edge's own shared-with.
C17_ImplicitAdjacencyRule ==
    [][(BuildsItem /\ Len(edge_or_node_to_qspec[idx + 1].k) = 2) =>
        LET edge == edge_or_node_to_qspec[idx + 1].k
            qspec == edge_or_node_to_qspec[idx + 1].v
            m == shared_with_map
            implicit == IF AdjacencyCondition(edge, edge_or_node_to_qspec, m)
                        THEN Joined(Partition(m), <<edge[1]>>, edge)
                        ELSE Partition(m)
        IN
        /\ Partition(shared_with_map') =
              IF qspec.kind = "shared" THEN Joined(implicit, qspec.ref, edge) ELSE implicit
        /\ AdjacencyCondition(edge, edge_or_node_to_qspec, m) =>
              TopOf(edge, shared_with_map') = TopOf(<<edge[1]>>, shared_with_map')
      ]_vars

\* an edge with a spec of its own was processed and is now in the group of its
\* source's output; another edge from that source, of another dtype, is not
C17_Witness ==
    /\ pc = "build"
    /\ \E i \in 1..idx, j \in 1..idx :
         LET e == edge_or_node_to_qspec[i] 
             f == edge_or_node_to_qspec[j]
         IN
         /\ Len(e.k) = 2 /\ Len(f.k) = 2
         /\ e.k[1] = f.k[1]
         /\ e.v.kind = "qspec" /\ f.v.kind = "qspec"
         /\ <<e.k[1]>> \in Keys(edge_or_node_to_qspec)
         /\ Lookup(edge_or_node_to_qspec, <<e.k[1]>>).kind = "qspec"
         /\ TopOf(e.k, shared_with_map) = <<e.k[1]>>
         /\ TopOf(f.k, shared_with_map) = f.k

-----------------------------------------------------------------------------
(* The graph and its nodes *)

NodeArg(n) == [t |-> "node", n |-> n, items |-> <<>>]

ConstArg == [t |-> "const", n |-> 0, items |-> <<>>]

ListArg(items) == [t |-> "list", n |-> 0, items |-> items]

TupleArg(items) == [t |-> "tuple", n |-> 0, items |-> items]

\* a node of the exported graph; val: "val" in node.meta and it is a FakeTensor;
\* ann: "quantization_annotation" in node.meta
FxNode(args, kwargs, clone, val, ann, input_qspec_map, output_qspec) ==
    [op |-> "call_function", args |-> args, kwargs |-> kwargs, clone |-> clone,
     val |-> val, mod |-> NoInstance, ann |-> ann,
     input_qspec_map |-> input_qspec_map, output_qspec |-> output_qspec]

\* the call_module node of an observer / fake quant module
ObserverNode(input, obs_or_fq) ==
    [op |-> "call_module", args |-> <<NodeArg(input)>>, kwargs |-> FALSE, clone |-> FALSE,
     val |-> FALSE, mod |-> obs_or_fq, ann |-> FALSE,
     input_qspec_map |-> <<>>, output_qspec |-> NoSpec]

SeqRange(q) == {q[i] : i \in DOMAIN q}

\* the nodes among the arguments, nested lists and tuples included
RECURSIVE ArgNodes(_)
ArgNodes(args) ==
    UNION {IF args[i].t = "node" THEN {args[i].n}
           ELSE IF args[i].t \in {"list", "tuple"} THEN ArgNodes(args[i].items)
           ELSE {} : i \in DOMAIN args}

\* node.users, in graph order
Users(n, g) == SelectSeq(g.order, LAMBDA u : n \in ArgNodes(g.node[u].args))

\* Node.replace_input_with
RECURSIVE ReplaceInput(_, _, _)
ReplaceInput(args, old, new) ==
    [i \in DOMAIN args |->
        IF args[i].t = "node" THEN (IF args[i].n = old THEN NodeArg(new) ELSE args[i])
        ELSE IF args[i].t \in {"list", "tuple"}
             THEN [args[i] EXCEPT !.items = ReplaceInput(args[i].items, old, new)]
        ELSE args[i]]

IndexOf(q, x) == CHOOSE i \in DOMAIN q : q[i] = x

InsertAfter(q, x, new) ==
    LET i == IndexOf(q, x) IN SubSeq(q, 1, i) \o <<new>> \o SubSeq(q, i + 1, Len(q))

\* graph.inserting_after(node): graph.create_node('call_module', name, (node,), {})
_insert_obs_or_fq(node, obs_or_fq, g) ==
    LET new == Len(g.order) + 1 IN
    [new |-> new,
     g |-> [order |-> InsertAfter(g.order, node, new),
            node |-> Put(g.node, new, ObserverNode(node, obs_or_fq))]]

_is_activation_post_process_node(n, g) == g.node[n].op = "call_module"

\* while _is_activation_post_process_node(arg): arg = arg.args[0]
RECURSIVE ObservedSource(_, _)
ObservedSource(n, g) ==
    IF _is_activation_post_process_node(n, g)
    THEN ObservedSource(g.node[n].args[1].n, g)
    ELSE n

DefaultFp32 == [id |-> 0, dtype |-> "float", is_dynamic |-> "false", ctr |-> "placeholder"]

\* the instance a qspec stands for, None for no qspec
FromQspec(qspec, instances) ==
    IF qspec = NoSpec THEN [err |-> "", obj |-> NoInstance]
    ELSE _create_obs_or_fq_from_qspec(qspec, instances, 0)

\* the instance for arg as an input of node: from node's input_qspec_map, looked up
\* at the node arg stands for behind its observers
_get_arg_as_input_act_obs_or_fq(arg, node, g, instances) ==
    LET src == ObservedSource(arg, g)
        qmap == g.node[node].input_qspec_map
    IN
    IF src \in Keys(qmap) THEN FromQspec(Lookup(qmap, src), instances)
    ELSE [err |-> "", obj |-> DefaultFp32]

\* the instance for arg as the output of what produces it
_get_output_act_obs_or_fq(arg, g, instances) ==
    IF g.node[arg].ann THEN FromQspec(g.node[arg].output_qspec, instances)
    ELSE IF _is_activation_post_process_node(arg, g)
         THEN LET observed_arg == g.node[arg].args[1].n IN
              IF g.node[observed_arg].ann
              THEN FromQspec(g.node[observed_arg].output_qspec, instances)
              ELSE [err |-> "", obj |-> DefaultFp32]
    ELSE [err |-> "", obj |-> DefaultFp32]

_get_dtype_and_is_dynamic(obs_or_fq) ==
    IF obs_or_fq = NoInstance THEN [dtype |-> "None", is_dynamic |-> FALSE]
    ELSE [dtype |-> obs_or_fq.dtype, is_dynamic |-> (obs_or_fq.is_dynamic = "true")]

-----------------------------------------------------------------------------
(* Graph mutator *)

Event(kind, node, arg, src, obs, inst) ==
    [kind |-> kind, node |-> node, arg |-> arg, src |-> src, obs |-> obs, inst |-> inst]

ArgResult(e, g, new_arg, evs) == [err |-> e, g |-> g, arg |-> new_arg, events |-> evs]

\* torch.float not among the dtypes that need no observer
_needs_input_observer_unless_none(target) ==
    target.is_dynamic \/ target.dtype # "None"

\* line 270
_needs_input_observer(target) ==
    target.is_dynamic \/ target.dtype \notin {"float", "None"}

\* lines 299-302
_is_existing_obs(maybe_obs_node, g, obs_or_fq, target_dtype) ==
    /\ g.node[maybe_obs_node].op = "call_module"
    /\ g.node[maybe_obs_node].mod.ctr = obs_or_fq.ctr
    /\ g.node[maybe_obs_node].mod.dtype = target_dtype

\* the new observer put on the node the chain of observers starts from
_observed_source(arg, src) == src

\* line 309: maybe_observed_arg = arg, the input of the new observer
_maybe_observed_arg(arg, src) == arg

\* lines 270-328: what is done for arg once the two instances are known
InputObserverForTargets(node, arg, g, instances, as_input, as_output) ==
    IF as_input.err # "" THEN ArgResult(as_input.err, g, NodeArg(arg), <<>>)
    ELSE IF as_output.err # "" THEN ArgResult(as_output.err, g, NodeArg(arg), <<>>)
    ELSE
    LET input_target == _get_dtype_and_is_dynamic(as_input.obj)
        output_target == _get_dtype_and_is_dynamic(as_output.obj)
    IN
    IF ~_needs_input_observer(input_target)
    THEN ArgResult("", g, NodeArg(arg), <<>>)
    ELSE IF /\ input_target.dtype = output_target.dtype
            /\ input_target.is_dynamic = output_target.is_dynamic
    THEN \* lines 273-282
         IF ~_is_activation_post_process_node(arg, g) \/ as_input.obj = NoInstance
         THEN ArgResult("AssertionError", g, NodeArg(arg), <<>>)
         ELSE LET observed_arg == g.node[arg].args[1] IN
              IF observed_arg.t # "node" \/ <<observed_arg.n>> \notin DOMAIN instances
              THEN ArgResult("AssertionError", g, NodeArg(arg), <<>>)
              ELSE ArgResult("", g, NodeArg(arg),
                             <<Event("reuse_output", node, arg, observed_arg.n, arg,
                                     g.node[arg].mod.id)>>)
    ELSE \* lines 295-326
         LET existing == SelectSeq(Users(arg, g),
                                   LAMBDA u : _is_existing_obs(u, g, as_input.obj,
                                                               input_target.dtype))
         IN
         IF existing = <<>>
         THEN LET src == ObservedSource(arg, g) IN
              IF <<src, node>> \notin DOMAIN instances
              THEN ArgResult("KeyError", g, NodeArg(arg), <<>>)
              ELSE LET r == _insert_obs_or_fq(_maybe_observed_arg(arg, src),
                                              instances[<<src, node>>], g) IN
                   ArgResult("", r.g, NodeArg(r.new),
                             <<Event("insert_input", node, arg, src, r.new,
                                     instances[<<src, node>>].id)>>)
         ELSE ArgResult("", g, NodeArg(existing[1]),
                        <<Event("reuse_existing", node, arg, ObservedSource(arg, g),
                                existing[1], g.node[existing[1]].mod.id)>>)

\* lines 259-328: arg is a Node
InputObserverForNodeArg(node, arg, g, instances) ==
    InputObserverForTargets(node, arg, g, instances,
                            _get_arg_as_input_act_obs_or_fq(arg, node, g, instances),
                            _get_output_act_obs_or_fq(arg, g, instances))

\* a tuple returned for a list as well
TupleOfArg(t, r) == ArgResult(r.err, r.g, [t |-> "tuple", n |-> 0, items |-> r.args], r.events)

\* line 255: type(arg)(new_arg_to_return)
SameTypeOfArg(t, r) == ArgResult(r.err, r.g, [t |-> t, n |-> 0, items |-> r.args], r.events)

\* lines 254, 358: new_args.append(new_arg)
AppendNewArg(st, r) ==
    [err |-> r.err, g |-> r.g, args |-> Append(st.args, r.arg),
     events |-> st.events \o r.events]

NoNewArgs(g) == [err |-> "", g |-> g, args |-> <<>>, events |-> <<>>]

\* lines 248-258: lists and tuples are gone through, other values are returned
RECURSIVE _maybe_insert_input_observer_for_arg_or_kwarg(_, _, _, _)
RECURSIVE InputObserversForArgs(_, _, _, _, _)
_maybe_insert_input_observer_for_arg_or_kwarg(node, arg, g, instances) ==
    IF arg.t \in {"list", "tuple"}
    THEN SameTypeOfArg(arg.t, InputObserversForArgs(node, arg.items, 1, instances, NoNewArgs(g)))
    ELSE IF arg.t # "node" THEN ArgResult("", g, arg, <<>>)
    ELSE InputObserverForNodeArg(node, arg.n, g, instances)

\* for arg in args: new_args.append(...)
InputObserversForArgs(node, args, i, instances, st) ==
    IF i > Len(args) \/ st.err # "" THEN st
    ELSE InputObserversForArgs(node, args, i + 1, instances,
            AppendNewArg(st, _maybe_insert_input_observer_for_arg_or_kwarg(
                                 node, args[i], st.g, instances)))

NodeResult(e, g, evs) == [err |-> e, g |-> g, events |-> evs]

\* aten.clone not exempted
_no_kwargs(n) == ~n.kwargs

\* lines 362-364
_kwargs_allowed(n) == n.clone \/ ~n.kwargs

\* lines 362-367: the kwargs are looked at, then node.args = tuple(new_args)
AssignNewArgs(node, r) ==
    IF r.err # "" THEN NodeResult(r.err, r.g, r.events)
    ELSE IF ~_kwargs_allowed(r.g.node[node]) THEN NodeResult("AssertionError", r.g, r.events)
    ELSE NodeResult("", [r.g EXCEPT !.node[node].args = r.args], r.events)

\* lines 353-367
_maybe_insert_input_observers_for_node(node, g, instances) ==
    AssignNewArgs(node, InputObserversForArgs(node, g.node[node].args, 1, instances,
                                              NoNewArgs(g)))

\* the new observer relinked as well
RelinkUsersAndObserver(node, obs, g) ==
    [g EXCEPT !.node = [u \in DOMAIN g.node |->
        IF node \in ArgNodes(g.node[u].args)
        THEN [g.node[u] EXCEPT !.args = ReplaceInput(g.node[u].args, node, obs)]
        ELSE g.node[u]]]

\* lines 427-431: every user but the new observer takes the observer for node
RelinkUsers(node, obs, g) ==
    [g EXCEPT !.node = [u \in DOMAIN g.node |->
        IF u # obs /\ node \in ArgNodes(g.node[u].args)
        THEN [g.node[u] EXCEPT !.args = ReplaceInput(g.node[u].args, node, obs)]
        ELSE g.node[u]]]

\* line 377
_has_output_observer(node, instances) == <<node>> \in DOMAIN instances

\* the FakeTensor check left out
_output_always_a_tensor(n) == TRUE

\* line 402
_output_is_a_tensor(n) == n.val

\* lines 410-431: the users of node are relinked to the output observer just made
RelinkToOutputObserver(node, inst, r) ==
    NodeResult("", RelinkUsers(node, r.new, r.g),
               <<Event("insert_output", node, node, node, r.new, inst.id)>>)

\* lines 402-431
OutputObserverForNode(node, g, instances) ==
    IF ~_output_is_a_tensor(g.node[node]) THEN NodeResult("", g, <<>>)
    ELSE IF ~_has_output_observer(node, instances) THEN NodeResult("", g, <<>>)
    ELSE RelinkToOutputObserver(node, instances[<<node>>],
                                _insert_obs_or_fq(node, instances[<<node>>], g))

AfterInputs(evs, o) == NodeResult(o.err, o.g, evs \o o.events)

\* lines 402-431 after the inputs of node were gone through (r)
OutputSide(node, r, instances) ==
    IF r.err # "" THEN r
    ELSE AfterInputs(r.events, OutputObserverForNode(node, r.g, instances))

\* lines 388-431
_maybe_insert_input_and_output_observers_for_node(node, g, instances) ==
    IF ~g.node[node].ann THEN NodeResult("", g, <<>>)
    ELSE OutputSide(node, _maybe_insert_input_observers_for_node(node, g, instances),
                    instances)

\* lines 106-117
RECURSIVE _get_edge_or_node_to_qspec(_, _)
_get_edge_or_node_to_qspec(g, i) ==
    IF i > Len(g.order) THEN <<>>
    ELSE LET n == g.order[i]
             qa == g.node[n]
             inputs == [j \in DOMAIN qa.input_qspec_map |->
                           Item(<<qa.input_qspec_map[j].k, n>>, qa.input_qspec_map[j].v)]
             output == IF qa.output_qspec # NoSpec THEN <<Item(<<n>>, qa.output_qspec)>> ELSE <<>>
         IN
         (IF qa.ann THEN inputs \o output ELSE <<>>) \o _get_edge_or_node_to_qspec(g, i + 1)

-----------------------------------------------------------------------------
(* prepare on a graph: Spec *)

\* lines 440-447: the node list is captured, the annotations are read
PrepareStart ==
    /\ pc = "idle"
    /\ runs < MaxRuns
    /\ LET d == _get_edge_or_node_to_qspec(graph, 1) IN
       /\ edge_or_node_to_qspec' = d
       /\ shared_with_map' = [p \in Keys(d) |-> p]
       /\ connected' = [p \in Keys(d) |-> {p}]
    /\ nodes_before_observation' = graph.order
    /\ count_before' = Len(graph.order)
    /\ node_idx' = 0
    /\ events' = <<>>
    /\ pc' = "build"
    /\ idx' = 0
    /\ cur_group_id' = 0
    /\ edge_or_node_to_group_id' = <<>>
    /\ group_id_to_obs_or_fq' = <<>>
    /\ obs_or_fq_map' = <<>>
    /\ UNCHANGED <<err, factory_calls, call, graph, runs, ret>>

\* the loop going over model.graph.nodes as it is mutated
NodesOfMutatedGraph(captured, g) == g.order

\* line 450: the loop goes over the captured list, not over the graph
NodesOfLoop(captured, g) == captured

\* lines 450-452: one node of the captured list
InsertStep ==
    /\ pc = "insert"
    /\ node_idx < Len(NodesOfLoop(nodes_before_observation, graph))
    /\ LET r == _maybe_insert_input_and_output_observers_for_node(
                    NodesOfLoop(nodes_before_observation, graph)[node_idx + 1], graph,
                    obs_or_fq_map)
       IN
       /\ graph' = r.g
       /\ events' = events \o r.events
       /\ err' = r.err
       /\ pc' = IF r.err # "" THEN "raised" ELSE "insert"
    /\ node_idx' = node_idx + 1
    /\ UNCHANGED <<edge_or_node_to_qspec, shared_with_map, idx, cur_group_id,
                   edge_or_node_to_group_id, group_id_to_obs_or_fq, obs_or_fq_map,
                   factory_calls, connected, call, nodes_before_observation, runs,
                   count_before, ret>>

\* lines 454-466: the observed model is returned
PrepareDone ==
    /\ pc = "insert"
    /\ node_idx = Len(NodesOfLoop(nodes_before_observation, graph))
    /\ pc' = "idle"
    /\ runs' = runs + 1
    /\ UNCHANGED <<err, edge_or_node_to_qspec, shared_with_map, idx, cur_group_id,
                   edge_or_node_to_group_id, group_id_to_obs_or_fq, obs_or_fq_map,
                   factory_calls, connected, call, graph, nodes_before_observation,
                   node_idx, count_before, events, ret>>

\* the graph drawn: op1 -> op2, op3 = cat([op1, op2], dim)
GraphNodes == {op1, op2, op3}

GraphArgs(n) ==
    IF n = op1 THEN <<ConstArg>>
    ELSE IF n = op2 THEN <<NodeArg(op1)>>
    ELSE <<ListArg(<<NodeArg(op1), NodeArg(op2)>>), ConstArg>>

GraphInputs(n) == IF n = op1 THEN <<>> ELSE IF n = op2 THEN <<op1>> ELSE <<op1, op2>>

GraphPos == {<<op1>>, <<op2>>, <<op3>>, <<op1, op2>>, <<op1, op3>>, <<op2, op3>>}

\* the positions the drawn SharedQuantizationSpecs refer to
SharedWith == {<<op1>>, <<op2>>, <<op1, op3>>}

GraphSpecs ==
    {int8_qspec, int8_qspec_b, int8_dynamic_qspec, uint8_qspec}
        \cup {SharedQuantizationSpec(p) : p \in SharedWith}

\* the annotations a quantizer left on the nodes: position -> qspec
Annotations ==
    UNION {[ps -> GraphSpecs] :
           ps \in {qs \in SUBSET GraphPos : Cardinality(qs) <= MaxGraphAnn}}

\* what is particular to op2: no tensor value, keyword arguments, aten.clone
Particulars == {"plain", "no_val", "kwargs", "clone_kwargs"}

InputQspecMap(n, f) ==
    LET ins == SelectSeq(GraphInputs(n), LAMBDA a : <<a, n>> \in DOMAIN f) IN
    [j \in DOMAIN ins |-> Item(ins[j], f[<<ins[j], n>>])]

AnnotatedGraph(f, particular) ==
    [order |-> <<op1, op2, op3>>,
     node |-> [n \in GraphNodes |->
        FxNode(GraphArgs(n),
               n = op2 /\ particular \in {"kwargs", "clone_kwargs"},
               n = op2 /\ particular = "clone_kwargs",
               ~(n = op2 /\ particular = "no_val"),
               \E p \in DOMAIN f : p[Len(p)] = n,
               InputQspecMap(n, f),
               IF <<n>> \in DOMAIN f THEN f[<<n>>] ELSE NoSpec)]]

Init ==
    /\ call = "prepare"
    /\ pc = "idle"
    /\ err = ""
    /\ \E f \in Annotations, particular \in Particulars : graph = AnnotatedGraph(f, particular)
    /\ nodes_before_observation = <<>>
    /\ node_idx = 0
    /\ runs = 0
    /\ count_before = 0
    /\ events = <<>>
    /\ edge_or_node_to_qspec = <<>>
    /\ shared_with_map = <<>>
    /\ connected = <<>>
    /\ idx = 0
    /\ cur_group_id = 0
    /\ edge_or_node_to_group_id = <<>>
    /\ group_id_to_obs_or_fq = <<>>
    /\ obs_or_fq_map = <<>>
    /\ factory_calls = <<>>
    /\ ret = NoRet

Next ==
    \/ PrepareStart
    \/ BuildStep
    \/ AssignGroupIds
    \/ GetObsOrFqMap
    \/ InsertStep
    \/ PrepareDone

Spec == Init /\ [][Next]_vars

-----------------------------------------------------------------------------
(* Properties of prepare *)

PassCompleted == pc = "idle" /\ runs >= 1

Inserted(kinds) == {events[i] : i \in {j \in DOMAIN events : events[j].kind \in kinds}}

InputEvents == Inserted({"insert_input", "reuse_output", "reuse_existing"})

\* the observer nodes that consume a and were in the graph before node new was made
ObserversOf(a, new) ==
    {x \in SeqRange(graph.order) :
        /\ x < new
        /\ _is_activation_post_process_node(x, graph)
        /\ graph.node[x].args[1].n = a}

SameKindAndDtype(obs_or_fq, mod) == obs_or_fq.ctr = mod.ctr /\ obs_or_fq.dtype = mod.dtype

\* the chain A -> existing_obs -> B met when B's argument e.arg (A itself or existing_obs)
\* was gone through: existing_obs consumes A and is of the kind and dtype needed on (A, B)
ChainsOf(e) ==
    {x \in ObserversOf(e.src, Len(graph.order) + 1) :
        /\ x # e.obs \/ e.kind # "insert_input"
        /\ e.kind = "insert_input" => x < e.obs
        /\ e.arg \in {e.src, x}
        /\ <<e.src, e.node>> \in DOMAIN obs_or_fq_map
        /\ SameKindAndDtype(obs_or_fq_map[<<e.src, e.node>>], graph.node[x].mod)}

\* C7: for a chain A -> existing_obs -> B where the observer needed on B's input from A
\* has the kind and the dtype of existing_obs, going through B's inputs inserts no
\* second observer node and B's argument becomes existing_obs
C7_NoDoubleInstrumentation ==
    pc # "raised" =>
    \A e \in InputEvents :
        ChainsOf(e) # {} => e.kind # "insert_input" /\ e.obs \in ChainsOf(e)

\* the groups whose instance a node inserted in this pass carries
GroupsInserted == {e.inst : e \in Inserted({"insert_input", "insert_output"})}

\* C8 as stated: after the pass the graph has the nodes it had before plus one node
\* for each group that required an observer
C8_OneNodePerGroup ==
    PassCompleted => Len(graph.order) = count_before + Cardinality(GroupsInserted)

\* the annotated nodes of the captured list with a tensor value and a bound instance
AnnotatedTensorOutputs ==
    {n \in SeqRange(nodes_before_observation) :
        graph.node[n].ann /\ graph.node[n].val /\ <<n>> \in DOMAIN obs_or_fq_map}

OutputInserts == {e.node : e \in Inserted({"insert_output"})}

InputInserts == {<<e.src, e.node>> : e \in Inserted({"insert_input"})}

\* C8 amended: after the pass the graph has the nodes it had before plus one node for
\* each annotated tensor-valued node output and one node for each of the annotated input
\* edges an observer was inserted on; positions of one group each get their own node
C8_OneNodePerPosition ==
    PassCompleted =>
        /\ Len(graph.order) =
              count_before + Cardinality(AnnotatedTensorOutputs) + Cardinality(InputInserts)
        /\ OutputInserts = AnnotatedTensorOutputs
        /\ InputInserts \subseteq Keys(edge_or_node_to_qspec)
        /\ \A x \in SeqRange(graph.order) \ SeqRange(nodes_before_observation) :
              _is_activation_post_process_node(x, graph)

\* a node output and an input edge of two groups, each with its own node
C8_Witness ==
    /\ PassCompleted
    /\ runs = 1
    /\ Cardinality(AnnotatedTensorOutputs) = 1
    /\ Cardinality(InputInserts) = 1
    /\ Cardinality(GroupsInserted) = 2
    /\ Len(graph.order) = count_before + 2

\* C9: a second run on the graph a first run produced, annotations unchanged, inserts
\* no node
C9_SecondRunInsertsNothing ==
    (pc = "idle" /\ runs = 2) => Len(graph.order) = count_before

\* the nodes the graph had when prepare was called, in the order they have now
OriginalNodes == SelectSeq(graph.order, LAMBDA n : n <= count_before)

OutputInsertsFor(n, evs) == {i \in DOMAIN evs : evs[i].kind = "insert_output" /\ evs[i].node = n}

\* C19: the pass processes the nodes the graph had before any mutation, each once and in
\* the original order; a node inserted during the pass is never processed, and a node
\* gets at most one output observer in a pass
C19_SnapshotOneShot ==
    [][/\ (pc = "insert" /\ node_idx' # node_idx) =>
            /\ node_idx < count_before
            /\ node_idx' = node_idx + 1
            /\ graph' = _maybe_insert_input_and_output_observers_for_node(
                            OriginalNodes[node_idx + 1], graph, obs_or_fq_map).g
            /\ OriginalNodes' = OriginalNodes
            /\ \A i \in DOMAIN events' : events'[i].node \in SeqRange(OriginalNodes)
            /\ \A n \in SeqRange(graph'.order) :
                  Cardinality(OutputInsertsFor(n, events')) <= 1
       /\ (pc = "insert" /\ pc' = "idle") => node_idx = count_before
       /\ (pc = "idle" /\ pc' # "idle") => node_idx' = 0 /\ count_before' = Len(graph.order)
      ]_vars

\* op1 got its output observer, which moved op3 in the graph, and op3 was processed
\* as the third and last node
C19_Witness ==
    /\ PassCompleted
    /\ runs = 1
    /\ node_idx = 3
    /\ op1 \in OutputInserts
    /\ Len(graph.order) > count_before
    /\ \E e \in Inserted({"insert_input", "reuse_output", "reuse_existing"}) : e.node = op3

\* the arguments after are the arguments before with new at every place of old,
\* inside lists and tuples as well
RECURSIVE TakesInPlace(_, _, _, _)
TakesInPlace(before, after, old, new) ==
    /\ Len(after) = Len(before)
    /\ \A i \in DOMAIN before :
         IF before[i].t \in {"list", "tuple"}
         THEN /\ after[i].t = before[i].t
              /\ TakesInPlace(before[i].items, after[i].items, old, new)
         ELSE IF before[i].t = "node" /\ before[i].n = old
         THEN after[i].t = "node" /\ after[i].n = new
         ELSE after[i] = before[i]

\* C20: when the node processed is annotated, has a tensor output and an instance for
\* its output, then after the step a new observer node consumes it, every consumer it
\* had before the step consumes the observer in its place at every argument occurrence,
\* and the observer is its only consumer
C20_OutputSideRewiring ==
    [][(/\ pc = "insert"
        /\ node_idx' = node_idx + 1
        /\ pc' = "insert"
        /\ graph.node[nodes_before_observation[node_idx + 1]].ann
        /\ graph.node[nodes_before_observation[node_idx + 1]].val
        /\ <<nodes_before_observation[node_idx + 1]>> \in DOMAIN obs_or_fq_map) =>
        LET n == nodes_before_observation[node_idx + 1] IN
        \E obs \in SeqRange(graph'.order) \ SeqRange(graph.order) :
            /\ _is_activation_post_process_node(obs, graph')
            /\ graph'.node[obs].args = <<NodeArg(n)>>
            /\ Users(n, graph') = <<obs>>
            /\ \A u \in SeqRange(Users(n, graph)) :
                  /\ u # obs
                  /\ TakesInPlace(graph.node[u].args, graph'.node[u].args, n, obs)
                  /\ obs \in ArgNodes(graph'.node[u].args)
                  /\ n \notin ArgNodes(graph'.node[u].args)
      ]_vars

\* op1 was processed: its observer is its only consumer, and op2 and the list of op3
\* take the observer
C20_Witness ==
    /\ pc = "insert"
    /\ runs = 0
    /\ node_idx = 1
    /\ Users(op1, graph) = <<4>>
    /\ graph.node[4].args = <<NodeArg(op1)>>
    /\ ArgNodes(graph.node[op2].args) = {4}
    /\ ArgNodes(graph.node[op3].args) = {4, op2}

\* the node the insertion loop takes next
NodeOfStep == nodes_before_observation[node_idx + 1]

\* one step of the insertion loop, ended by an exception or not
StepOfLoop == pc = "insert" /\ node_idx' = node_idx + 1

\* C21: a node whose val is absent or not a tensor value gets no output observer and
\* keeps its consumers, also when its output has an instance in the map
C21_NonTensorOutputNotObserved ==
    [][(StepOfLoop /\ ~graph.node[NodeOfStep].val) =>
        /\ Users(NodeOfStep, graph') = Users(NodeOfStep, graph)
        /\ \A x \in SeqRange(graph'.order) \ SeqRange(graph.order) :
              NodeOfStep \notin ArgNodes(graph'.node[x].args)
        /\ OutputInsertsFor(NodeOfStep, events') = {}
      ]_vars

\* op2 has no tensor value and an instance for its output, was processed, and op3 is
\* still its only consumer
C21_Witness ==
    /\ pc = "insert"
    /\ node_idx = 2
    /\ ~graph.node[op2].val
    /\ graph.node[op2].ann
    /\ <<op2>> \in DOMAIN obs_or_fq_map
    /\ Users(op2, graph) = <<op3>>

\* the arguments after have the length, order, nesting and container kinds of the
\* arguments before; what is not a node is the same, a node is the same or an observer
RECURSIVE StructurePreserved(_, _, _)
StructurePreserved(before, after, g) ==
    /\ Len(after) = Len(before)
    /\ \A i \in DOMAIN before :
         IF before[i].t \in {"list", "tuple"}
         THEN /\ after[i].t = before[i].t
              /\ StructurePreserved(before[i].items, after[i].items, g)
         ELSE IF before[i].t = "node"
         THEN \/ after[i] = before[i]
              \/ /\ after[i].t = "node"
                 /\ _is_activation_post_process_node(after[i].n, g)
         ELSE after[i] = before[i]

\* C22: after the input side of a node was processed its positional arguments have the
\* same length, order, nesting and container kinds; an element that is not a node is
\* unchanged, a node element is unchanged or replaced by an observer node
C22_ArgumentStructurePreserved ==
    [][StepOfLoop =>
        StructurePreserved(graph.node[NodeOfStep].args, graph'.node[NodeOfStep].args, graph')
      ]_vars

\* op3 was processed: the first element of its list is a new observer of op1, the list
\* is a list, op2 and the constant are where they were
C22_Witness ==
    /\ pc = "insert"
    /\ runs = 0
    /\ node_idx = 3
    /\ \E x \in SeqRange(graph.order) \ GraphNodes :
         /\ _is_activation_post_process_node(x, graph)
         /\ graph.node[op3].args = <<ListArg(<<NodeArg(x), NodeArg(op2)>>), ConstArg>>
         /\ \E i \in DOMAIN events :
               events[i].kind = "insert_input" /\ events[i].node = op3 /\ events[i].obs = x

\* C23: when the input side of edge (arg, node) reuses an observer node that already
\* consumes arg, the instance of the reused node is the instance of the edge's group;
\* a reuse with another instance does not happen (the pass aborts instead)
C23_ReuseRespectsGroupInstance ==
    \A i \in DOMAIN events :
        events[i].kind = "reuse_existing" =>
            /\ <<events[i].src, events[i].node>> \in DOMAIN obs_or_fq_map
            /\ events[i].inst = obs_or_fq_map[<<events[i].src, events[i].node>>].id

\* the observers the step inserts on inputs whose argument is itself an observer
ChainedInputInserts(evs, evs_after) ==
    {evs_after[i] : i \in {j \in DOMAIN evs_after :
        /\ j > Len(evs)
        /\ evs_after[j].kind = "insert_input"
        /\ evs_after[j].arg # evs_after[j].src}}

\* C24: when a new input observer is inserted for (arg, node) and arg is the end of a
\* chain of observers, the instance is the one of edge (s, node) for the source s the
\* chain starts from, the new node takes s as its input, and the new node replaces arg
\* in the arguments of node
C24_NewObserverOnTrueSource ==
    [][(StepOfLoop /\ pc' = "insert") =>
        \A e \in ChainedInputInserts(events, events') :
            /\ e.src = ObservedSource(e.arg, graph)
            /\ e.inst = obs_or_fq_map[<<e.src, e.node>>].id
            /\ graph'.node[e.obs].mod = obs_or_fq_map[<<e.src, e.node>>]
            /\ graph'.node[e.obs].args = <<NodeArg(e.src)>>
            /\ e.obs \in ArgNodes(graph'.node[e.node].args)
            /\ e.arg \notin ArgNodes(graph'.node[e.node].args)
      ]_vars

\* C24 amended: the new node takes arg, the end of the chain, as its input; the
\* instance is that of edge (s, node), and the new node replaces arg in the arguments
\* of node when the step ends without an exception
C24_NewObserverOnObservedArg ==
    [][(StepOfLoop /\ pc' = "insert") =>
        \A e \in ChainedInputInserts(events, events') :
            /\ e.src = ObservedSource(e.arg, graph)
            /\ e.inst = obs_or_fq_map[<<e.src, e.node>>].id
            /\ graph'.node[e.obs].mod = obs_or_fq_map[<<e.src, e.node>>]
            /\ graph'.node[e.obs].args = <<NodeArg(e.arg)>>
            /\ e.obs \in ArgNodes(graph'.node[e.node].args)
            /\ e.arg \notin ArgNodes(graph'.node[e.node].args)
      ]_vars

\* op2 was processed: its argument was the output observer of op1, and the new observer
\* with the instance of (op1, op2) is between that observer and op2
C24_Witness ==
    /\ pc = "insert"
    /\ runs = 0
    /\ node_idx = 2
    /\ \E e \in Inserted({"insert_input"}) :
         /\ e.node = op2 /\ e.src = op1 /\ e.arg # op1
         /\ _is_activation_post_process_node(e.arg, graph)
         /\ graph.node[e.arg].args = <<NodeArg(op1)>>
         /\ graph.node[e.obs].args = <<NodeArg(e.arg)>>
         /\ graph.node[op2].args = <<NodeArg(e.obs)>>
         /\ graph.node[e.obs].mod = obs_or_fq_map[<<op1, op2>>]

\* the graph with the keyword arguments of node n taken away / put back
WithoutKwargs(g, n) == [g EXCEPT !.node[n].kwargs = FALSE]

WithKwargs(g, n) == [g EXCEPT !.node[n].kwargs = TRUE]

\* the step does to the graph what it does to the graph without the kwargs of the node
KwargsIgnored(n, r) ==
    /\ err' = r.err
    /\ graph' = WithKwargs(r.g, n)

\* nothing is processed after an exception
NothingAfterAbort == pc = "raised" => (graph' = graph /\ node_idx' = node_idx /\ pc' = pc)

\* C25: a node of the captured list that has keyword arguments and is not aten.clone
\* aborts the pass with the assertion error, and no later node is processed;
\* aten.clone with keyword arguments is processed without an error
C25_KwargsAbortPass ==
    [][/\ StepOfLoop =>
            /\ (graph.node[NodeOfStep].kwargs /\ ~graph.node[NodeOfStep].clone) =>
                  (pc' = "raised" /\ err' = "AssertionError")
            /\ (graph.node[NodeOfStep].kwargs /\ graph.node[NodeOfStep].clone) =>
                  pc' = "insert"
       /\ NothingAfterAbort
      ]_vars

\* C25 amended: an annotated node that has keyword arguments and is not aten.clone
\* aborts the pass, with the assertion error when its arguments were gone through
\* without an exception, and no later node is processed; the keyword arguments of
\* aten.clone and of a node without annotation make no difference to the step
C25_KwargsCheckedOnAnnotatedNodes ==
    [][/\ StepOfLoop =>
            /\ (/\ graph.node[NodeOfStep].kwargs
                /\ ~graph.node[NodeOfStep].clone
                /\ graph.node[NodeOfStep].ann) =>
                  /\ pc' = "raised"
                  /\ err' # ""
                  /\ _maybe_insert_input_observers_for_node(
                         NodeOfStep, WithoutKwargs(graph, NodeOfStep), obs_or_fq_map).err = ""
                       => err' = "AssertionError"
            /\ (/\ graph.node[NodeOfStep].kwargs
                /\ graph.node[NodeOfStep].clone \/ ~graph.node[NodeOfStep].ann) =>
                  KwargsIgnored(NodeOfStep,
                                _maybe_insert_input_and_output_observers_for_node(
                                    NodeOfStep, WithoutKwargs(graph, NodeOfStep), obs_or_fq_map))
       /\ NothingAfterAbort
      ]_vars

\* op2, annotated, with keyword arguments and not aten.clone, was reached and the pass
\* ended there with the assertion error
C25_Witness ==
    /\ pc = "raised"
    /\ err = "AssertionError"
    /\ node_idx = 2
    /\ graph.node[op2].kwargs
    /\ ~graph.node[op2].clone
    /\ graph.node[op2].ann

\* the place of an annotated position in the order of edge_or_node_to_qspec
PlaceOf(p, d) == CHOOSE i \in DOMAIN d : d[i].k = p

\* the positions bound in obs_or_fq_map when the factory is called for position p:
\* those before p in the order of the dict
BoundBefore(p, d) == {d[i].k : i \in 1..(PlaceOf(p, d) - 1)}

\* C26: whenever the factory is called with a SharedQuantizationSpec, the position the
\* spec refers to is already bound in the obs_or_fq_map passed to the factory
C26_SharedReferenceMaterialized ==
    \A i \in DOMAIN factory_calls :
        factory_calls[i].qspec.kind = "shared" =>
            factory_calls[i].qspec.ref \in BoundBefore(factory_calls[i].pos, edge_or_node_to_qspec)

\* the position n parent pointers above p
RECURSIVE ParentPower(_, _, _)
ParentPower(p, m, n) == IF n = 0 THEN p ELSE ParentPower(m[p], m, n - 1)

\* C27: the parent map is a forest in every reachable state: every parent is a
\* registered position, the parent pointers from a registered position lead to a
\* position that is its own parent within as many steps as there are positions, and
\* _find_root returns for every registered position
C27_ParentMapIsForest ==
    /\ DOMAIN shared_with_map = Registered
    /\ \A p \in DOMAIN shared_with_map :
         /\ shared_with_map[p] \in DOMAIN shared_with_map
         /\ \E n \in 0..(Cardinality(DOMAIN shared_with_map) - 1) :
               LET top == ParentPower(p, shared_with_map, n) IN shared_with_map[top] = top
         /\ _find_root(p, shared_with_map).err = ""
         /\ shared_with_map[_find_root(p, shared_with_map).root] =
               _find_root(p, shared_with_map).root

\* after a union its two arguments are in a tree of depth two, and another root exists
C27_Witness ==
    /\ pc = "registry"
    /\ ret.op = "union"
    /\ ret.a # ret.b
    /\ \E p \in Registered, q \in Registered :
         /\ shared_with_map[p] # p
         /\ shared_with_map[shared_with_map[p]] # shared_with_map[p]
         /\ shared_with_map[q] = q
         /\ ParentPower(p, shared_with_map, 2) # q
         /\ ParentPower(ret.a, shared_with_map, 2) = ParentPower(ret.b, shared_with_map, 2)
         /\ ret.a \in {p, shared_with_map[p]}

\* one link of the annotations: one position is shared-with the other, or they are a
\* node output and an input edge from that node whose specs agree
Linked(p, q, d) ==
    \/ Lookup(d, p).kind = "shared" /\ Lookup(d, p).ref = q
    \/ Lookup(d, q).kind = "shared" /\ Lookup(d, q).ref = p
    \/ ImplicitlyAdjacent(p, q, d)

\* the annotated positions a chain of links leads to from the positions ps
RECURSIVE LinkedTo(_, _)
LinkedTo(ps, d) ==
    LET more == ps \cup {q \in Keys(d) : \E p \in ps : Linked(p, q, d)} IN
    IF more = ps THEN ps ELSE LinkedTo(more, d)

\* C28: two annotated positions get the same group id only if a chain of shared-with
\* references and implicit adjacencies connects them; a position without any link is
\* alone in its group; the keys of the returned map are the annotated positions
C28_NoSpuriousSharing ==
    GroupIdsReturned =>
        /\ DOMAIN edge_or_node_to_group_id = Keys(edge_or_node_to_qspec)
        /\ \A p \in Keys(edge_or_node_to_qspec), q \in Keys(edge_or_node_to_qspec) :
              edge_or_node_to_group_id[p] = edge_or_node_to_group_id[q]
                  => q \in LinkedTo({p}, edge_or_node_to_qspec)
        /\ \A p \in Keys(edge_or_node_to_qspec) :
              (/\ Lookup(edge_or_node_to_qspec, p).kind = "qspec"
               /\ \A q \in Keys(edge_or_node_to_qspec) \ {p} :
                     ~Linked(p, q, edge_or_node_to_qspec))
                  => \A q \in Keys(edge_or_node_to_qspec) \ {p} :
                        edge_or_node_to_group_id[q] # edge_or_node_to_group_id[p]

\* op1 and an edge from op1 with a spec of another dtype, which stays alone, while a
\* third position shares with op1: two groups for three positions
C28_Witness ==
    /\ pc = "returned"
    /\ Len(edge_or_node_to_qspec) = 3
    /\ <<op1>> \in Keys(edge_or_node_to_qspec)
    /\ <<op1, cat1>> \in Keys(edge_or_node_to_qspec)
    /\ Lookup(edge_or_node_to_qspec, <<op1>>).kind = "qspec"
    /\ Lookup(edge_or_node_to_qspec, <<op1, cat1>>).kind = "qspec"
    /\ Lookup(edge_or_node_to_qspec, <<op1>>).dtype # Lookup(edge_or_node_to_qspec, <<op1, cat1>>).dtype
    /\ \E p \in Keys(edge_or_node_to_qspec) :
         /\ Lookup(edge_or_node_to_qspec, p) = SharedQuantizationSpec(<<op1>>)
         /\ edge_or_node_to_group_id[p] = edge_or_node_to_group_id[<<op1>>]
    /\ edge_or_node_to_group_id[<<op1, cat1>>] # edge_or_node_to_group_id[<<op1>>]

\* the places of the annotations that are shared-with a position without annotation
Referring(d) == {i \in DOMAIN d : d[i].v.kind = "shared" /\ d[i].v.ref \notin Keys(d)}

FirstReferring(d) == CHOOSE i \in Referring(d) : \A j \in Referring(d) : i <= j

\* no group map was returned and the graph is the one prepare was called on
NothingReturnedOrMutated ==
    /\ edge_or_node_to_group_id = <<>>
    /\ obs_or_fq_map = <<>>
    /\ events = <<>>
    /\ node_idx = 0
    /\ graph.order = <<op1, op2, op3>>
    /\ \A n \in GraphNodes : graph.node[n].args = GraphArgs(n)

\* C29: with an annotation that is shared-with a position without annotation the
\* builder ends with KeyError when it processes the referring position; no group map
\* is returned and the graph is not mutated
C29_UnannotatedReferenceAborts ==
    Referring(edge_or_node_to_qspec) # {} =>
        /\ pc \in {"build", "raised"}
        /\ pc = "build" => idx < FirstReferring(edge_or_node_to_qspec)
        /\ pc = "raised" =>
              /\ err = "KeyError"
              /\ idx = FirstReferring(edge_or_node_to_qspec)
        /\ NothingReturnedOrMutated

\* C29 amended: the builder ends no later than at the referring position: with KeyError
\* at that position, or earlier at an input edge whose root spec is resolved through
\* it, unless a resolution ran into the recursion limit first; no group map is
\* returned and the graph is not mutated
C29_UnannotatedReferenceAbortsEarly ==
    Referring(edge_or_node_to_qspec) # {} =>
        /\ pc \in {"build", "raised"}
        /\ pc = "build" => idx < FirstReferring(edge_or_node_to_qspec)
        /\ pc = "raised" =>
              /\ idx <= FirstReferring(edge_or_node_to_qspec)
              /\ err \in {"KeyError", "RecursionError"}
              /\ idx < FirstReferring(edge_or_node_to_qspec) =>
                    Len(edge_or_node_to_qspec[idx].k) = 2
              /\ (err = "RecursionError") => Len(edge_or_node_to_qspec[idx].k) = 2
        /\ NothingReturnedOrMutated

\* the edge (op1, op2) is shared-with op2, which is shared-with a position without
\* annotation: KeyError at the edge, before op2 is processed
C29_Witness ==
    /\ pc = "raised"
    /\ err = "KeyError"
    /\ Referring(edge_or_node_to_qspec) # {}
    /\ idx = 1
    /\ FirstReferring(edge_or_node_to_qspec) = 2
    /\ edge_or_node_to_qspec[1].v.kind = "shared"
    /\ edge_or_node_to_qspec[1].v.ref = edge_or_node_to_qspec[2].k
    /\ graph.order = <<op1, op2, op3>>

\* the target of arg as an input of node is not dynamic and its dtype is float or absent
NoQuantizingTarget(arg, node, g, instances) ==
    LET target == _get_dtype_and_is_dynamic(
                      _get_arg_as_input_act_obs_or_fq(arg, node, g, instances).obj)
    IN
    /\ ~target.is_dynamic
    /\ target.dtype \in {"float", "None"}

\* every node argument without a quantizing target is where and what it was
RECURSIVE GatedArgsKept(_, _, _, _, _)
GatedArgsKept(before, after, node, g, instances) ==
    /\ Len(after) = Len(before)
    /\ \A i \in DOMAIN before :
         IF before[i].t \in {"list", "tuple"}
         THEN GatedArgsKept(before[i].items, after[i].items, node, g, instances)
         ELSE (before[i].t = "node" /\ NoQuantizingTarget(before[i].n, node, g, instances))
                  => after[i] = before[i]

\* what the step recorded for the inputs of the node it processed
InputEventsOfStep ==
    {events'[i] : i \in {j \in DOMAIN events' :
        j > Len(events) /\ events'[j].kind \in {"insert_input", "reuse_output", "reuse_existing"}}}

\* C30: an argument whose target as an input of the node is not dynamic and has dtype
\* float or none stays as it is and no node is inserted for it, whatever the target of
\* the argument's own output is; a node without annotation is not processed on either
\* side
C30_InputSideGate ==
    [][StepOfLoop =>
        /\ ~graph.node[NodeOfStep].ann =>
              /\ graph' = graph
              /\ events' = events
              /\ pc' = "insert"
        /\ graph.node[NodeOfStep].ann =>
              /\ GatedArgsKept(graph.node[NodeOfStep].args, graph'.node[NodeOfStep].args,
                               NodeOfStep, graph, obs_or_fq_map)
              /\ \A e \in InputEventsOfStep :
                    ~NoQuantizingTarget(e.arg, NodeOfStep, graph, obs_or_fq_map)
              /\ (/\ \A a \in ArgNodes(graph.node[NodeOfStep].args) :
                        NoQuantizingTarget(a, NodeOfStep, graph, obs_or_fq_map)
                  /\ ~graph.node[NodeOfStep].kwargs) =>
                    /\ pc' = "insert"
                    /\ graph'.node[NodeOfStep].args = graph.node[NodeOfStep].args
                    /\ \A x \in SeqRange(graph'.order) \ SeqRange(graph.order) :
                          graph'.node[x].args = <<NodeArg(NodeOfStep)>>
      ]_vars

\* op1 has an output observer, op2 is annotated on its output only: op2 was processed
\* and still takes the observer of op1, with nothing recorded for its input
C30_Witness ==
    /\ pc = "insert"
    /\ runs = 0
    /\ node_idx = 2
    /\ op1 \in OutputInserts
    /\ graph.node[op2].ann
    /\ graph.node[op2].input_qspec_map = <<>>
    /\ \E x \in SeqRange(graph.order) \ GraphNodes :
         /\ graph.node[x].args = <<NodeArg(op1)>>
         /\ graph.node[op2].args = <<NodeArg(x)>>
    /\ \A i \in DOMAIN events : events[i].kind = "insert_output"

====
